---- MODULE Spec2Model ----
(***************************************************************************)
(* Friend binding by invitation code: UserService.BindInvitation of        *)
(* internal/user/service/bind_friend.go, together with the collaborators   *)
(* it calls (the code cache, the relation store) and the goroutine it      *)
(* starts after a successful bind.  Several calls run concurrently; every  *)
(* collaborator call is one atomic step of the call that makes it.         *)
(***************************************************************************)
EXTENDS Naturals, Sequences, FiniteSets, TLC

\* ------------------------------------------------------------------ bounds
MaxCalls == 2

\* ------------------------------------------------------------- identifiers
\* the requester and the friend of the test table, and a third user
Users == {"102300217", "102300218", "102300219"}

\* the codes the users have issued, and a code that was never issued
IssuedCodes == {"ABCDEF", "GHIJKL"}
Codes == IssuedCodes \cup {"MNOPQR"}
Calls == 1..MaxCalls

\* the friend-count limit behind IsFriendNumsConfined
MaxFriendNums == 1

\* -------------------------------------------------------------- error text
InvalidInvitationCode == "service.BindInvitation: Invalid InvitationCode"
CacheLookupFailed     == "service.GetCodeStuIdMappingCode"
SelfBindingNotAllowed == "service.BindInvitation: cannot add yourself as friend"
RelationLookupFailed  == "service.GetRelationByUserId"
RelationAlreadyExists == "service.BindInvitation: RelationShip Already Exist"
RelationCreateFailed  == "service.CreateRelation"
ConfinementCheckFailed == "service.IsFriendNumsConfined get user friend cache"
FriendListFull        == "friendList is full"
Success               == "nil"

ErrorKinds ==
  { InvalidInvitationCode, CacheLookupFailed, SelfBindingNotAllowed,
    RelationLookupFailed, RelationAlreadyExists, ConfinementCheckFailed,
    FriendListFull, RelationCreateFailed }

\* errors the collaborators can return
CacheGetError  == "internal service error"
DbError        == "gorm.ErrInvalidData"
DuplicateEntry == "duplicate entry"
SetCacheError  == "cache error"
NoError        == "nil"

NoUser == ""
NoRet  == [kind |-> "running", who |-> NoUser, cause |-> NoError]

\* the error value of fmt.Errorf(kind) and of fmt.Errorf(kind + ": %w", cause)
Errorf(kind, who, cause) == [kind |-> kind, who |-> who, cause |-> cause]
Nil == [kind |-> Success, who |-> NoUser, cause |-> NoError]

VARIABLES
  codeMapping,   \* the code cache: key "code_mapping:<code>" -> issuing user
  friendCache,   \* the friend-list cache: pairs <<owner, friend>>
  relations,     \* the relation store: pairs <<stuId, friendId>>
  started,       \* how many calls of BindInvitation have been made
  pc,            \* per call: the statement it is at
  stuId,         \* per call: the requesting user
  code,          \* per call: the invitation code
  friendId,      \* per call: the resolved inviter
  ret,           \* per call: the returned error
  bg,            \* per call: the goroutine ("none", "spawned", "ok", "failed")
  trace,         \* per call: the calls it made of each collaborator, in order
  policyDown,    \* the friend-count check fails with an error
  capacity       \* per call: what the friend-count check answers when the
                 \* duplicate check has passed

vars == << codeMapping, friendCache, relations, started, pc, stuId, code,
           friendId, ret, bg, trace, policyDown, capacity >>

\* ------------------------------------------------------- pure computations
\* mapKey := fmt.Sprintf("code_mapping:%s", code)
MapKey(c) == "code_mapping:" \o c

\* s.cache.IsKeyExist(s.ctx, mapKey)
IsKeyExist(key) == key \in DOMAIN codeMapping

\* the self-binding guard left out
IsSelfNever(f, s) == FALSE

\* friendId == stuId
IsSelf(f, s) == f = s

\* the duplicate check asking for the reverse edge
RelationQueryReversed(s, f) == <<f, s>>

\* the arguments of s.db.User.GetRelationByUserId(s.ctx, stuId, friendId)
RelationQuery(s, f) == <<s, f>>

\* the arguments of CreateRelation in the other order
CreateArgsSwapped(s, f) == <<f, s>>

\* the arguments of s.db.User.CreateRelation(s.ctx, stuId, friendId)
CreateArgs(s, f) == <<s, f>>

\* the friend cache written from the requester's side
SetFriendArgsSwapped(s, f) == <<s, f>>

\* the arguments of s.cache.User.SetUserFriendCache(s.ctx, friendId, stuId)
SetFriendArgs(s, f) == <<f, s>>

\* the store: a relation exists for the ordered pair
RelationExists(pair) == pair \in relations

\* the friend-count check: the user has reached the maximum
FriendCount(u) == Cardinality({p \in friendCache : p[1] = u})
IsConfined(u) == FriendCount(u) >= MaxFriendNums

\* s.IsFriendNumsConfined(stuId): (confined, err)
IsFriendNumsConfined(u) ==
  [confined |-> ~policyDown /\ IsConfined(u), err |-> policyDown]

NoCapacity == [user |-> FALSE, target |-> FALSE, err |-> FALSE]

\* ---------------------------------------------------------------- branches
\* the existence check left out
AfterExistIgnored(exist) == [pc |-> "get", ret |-> NoRet]

\* if !exist { return ... }
AfterExist(exist) ==
  IF ~exist THEN [pc |-> "done", ret |-> Errorf(InvalidInvitationCode, NoUser, NoError)]
            ELSE [pc |-> "get", ret |-> NoRet]

\* if err != nil { return ... }; if friendId == stuId { return ... }
AfterGet(f, err, s) ==
  IF err # NoError THEN [pc |-> "done", ret |-> Errorf(CacheLookupFailed, NoUser, err)]
  ELSE IF IsSelf(f, s)
       THEN [pc |-> "done", ret |-> Errorf(SelfBindingNotAllowed, NoUser, NoError)]
       ELSE [pc |-> "find", ret |-> NoRet]

\* the exists flag looked at before the error
AfterFindOkFirst(ok, err) ==
  IF ok THEN [pc |-> "done", ret |-> [kind |-> RelationAlreadyExists,
                                      who |-> NoUser, cause |-> NoError]]
  ELSE IF err # NoError
       THEN [pc |-> "done", ret |-> [kind |-> RelationLookupFailed,
                                     who |-> NoUser, cause |-> err]]
       ELSE [pc |-> "create", ret |-> NoRet]

\* the duplicate check left out: only the error is looked at
AfterFindIgnoresOk(ok, err) ==
  IF err # NoError THEN [pc |-> "done", ret |-> [kind |-> RelationLookupFailed,
                                                 who |-> NoUser, cause |-> err]]
                   ELSE [pc |-> "create", ret |-> NoRet]

\* if err != nil { return ... }; if ok { return ... }
AfterFind(ok, err) ==
  IF err # NoError THEN [pc |-> "done", ret |-> Errorf(RelationLookupFailed, NoUser, err)]
  ELSE IF ok THEN [pc |-> "done", ret |-> Errorf(RelationAlreadyExists, NoUser, NoError)]
       ELSE [pc |-> "create", ret |-> NoRet]

\* the goroutine started whatever CreateRelation returned
AfterCreateIgnoresErr(err) == [pc |-> "go", ret |-> NoRet]

\* if err != nil { return ... }
AfterCreate(err) ==
  IF err # NoError THEN [pc |-> "done", ret |-> Errorf(RelationCreateFailed, NoUser, err)]
                   ELSE [pc |-> "go", ret |-> NoRet]

\* go func() {...}()
AfterGo == [pc |-> "return", bg |-> "spawned"]

\* the goroutine's error handed back to the caller
ReturnValueOfGoroutine(goroutine) ==
  IF goroutine = "failed" THEN [kind |-> "service. SetUserFriendCache",
                                who |-> NoUser, cause |-> SetCacheError]
                          ELSE Nil

\* return nil
ReturnValue(goroutine) == Nil

\* the goroutine: if err != nil { logger.Errorf(...) }
AfterSetFriend(err) == IF err # NoError THEN "failed" ELSE "ok"

\* the collaborator calls of one kind that a call has made, in order
CallsOf(c, name) == trace[c][name]

\* a call that has called no collaborator yet
EmptyLog ==
  [n \in {"IsKeyExist", "GetCodeStuIdMappingCache", "GetRelationByUserId",
          "CreateRelation", "SetUserFriendCache",
          "RemoveCodeStuIdMappingCache"} |-> <<>>]

\* the log after call c has made the collaborator call ev
Logged(c, ev) == [trace EXCEPT ![c][ev[1]] = Append(@, ev)]

\* ------------------------------------------------------------------- state
Init ==
  /\ codeMapping = [k \in {"code_mapping:ABCDEF", "code_mapping:GHIJKL"} |->
                       CASE k = "code_mapping:ABCDEF" -> "102300218"
                         [] k = "code_mapping:GHIJKL" -> "102300217"]
  /\ policyDown \in BOOLEAN
  /\ friendCache = {}
  /\ relations = {}
  /\ started = 0
  /\ pc = [c \in Calls |-> "idle"]
  /\ stuId = [c \in Calls |-> NoUser]
  /\ code = [c \in Calls |-> ""]
  /\ friendId = [c \in Calls |-> NoUser]
  /\ ret = [c \in Calls |-> NoRet]
  /\ bg = [c \in Calls |-> "none"]
  /\ trace = [c \in Calls |-> EmptyLog]
  /\ capacity = [c \in Calls |-> NoCapacity]

\* ----------------------------------------------------------------- actions
\* BindInvitation(stuId, code) is called: the key is derived and IsKeyExist
\* is asked
Call(c, s, k) ==
  /\ pc[c] = "idle"
  /\ c = started + 1
  /\ LET key == MapKey(k)
         nxt == AfterExist(IsKeyExist(key))
     IN /\ pc' = [pc EXCEPT ![c] = nxt.pc]
        /\ ret' = [ret EXCEPT ![c] = nxt.ret]
        /\ trace' = Logged(c, <<"IsKeyExist", key>>)
  /\ started' = c
  /\ stuId' = [stuId EXCEPT ![c] = s]
  /\ code' = [code EXCEPT ![c] = k]
  /\ UNCHANGED << policyDown, codeMapping, friendCache, relations, friendId, bg, capacity >>

\* friendId, err := s.cache.User.GetCodeStuIdMappingCache(s.ctx, mapKey)
GetMapping(c) ==
  /\ pc[c] = "get"
  /\ LET key == MapKey(code[c]) IN
     \E err \in {NoError, CacheGetError} :
       LET f == IF err = NoError /\ key \in DOMAIN codeMapping
                THEN codeMapping[key] ELSE NoUser
           nxt == AfterGet(f, err, stuId[c])
       IN /\ pc' = [pc EXCEPT ![c] = nxt.pc]
          /\ ret' = [ret EXCEPT ![c] = nxt.ret]
          /\ friendId' = [friendId EXCEPT ![c] = f]
          /\ trace' = Logged(c, <<"GetCodeStuIdMappingCache", key, err>>)
  /\ UNCHANGED << policyDown, codeMapping, friendCache, relations, started, stuId, code,
                  bg, capacity >>

\* ok, _, err := s.db.User.GetRelationByUserId(s.ctx, stuId, friendId)
FindRelation(c) ==
  /\ pc[c] = "find"
  /\ LET q == RelationQuery(stuId[c], friendId[c]) IN
     \E err \in {NoError, DbError} :
       LET ok == RelationExists(q)
           nxt == AfterFind(ok, err)
       IN /\ pc' = [pc EXCEPT ![c] = nxt.pc]
          /\ ret' = [ret EXCEPT ![c] = nxt.ret]
          /\ trace' = Logged(c, <<"GetRelationByUserId", q, ok, err>>)
          /\ capacity' = [capacity EXCEPT ![c] =
                            IF nxt.pc = "create"
                            THEN [user |-> IsFriendNumsConfined(stuId[c]).confined,
                                  target |-> IsFriendNumsConfined(friendId[c]).confined,
                                  err |-> IsFriendNumsConfined(stuId[c]).err]
                            ELSE NoCapacity]
  /\ UNCHANGED << policyDown, codeMapping, friendCache, relations, started, stuId, code,
                  friendId, bg >>

\* err = s.db.User.CreateRelation(s.ctx, stuId, friendId)
CreateRelation(c) ==
  /\ pc[c] = "create"
  /\ LET args == CreateArgs(stuId[c], friendId[c]) IN
     \E err \in (IF RelationExists(args) THEN {DuplicateEntry}
                                         ELSE {NoError, DbError}) :
       LET nxt == AfterCreate(err)
       IN /\ pc' = [pc EXCEPT ![c] = nxt.pc]
          /\ ret' = [ret EXCEPT ![c] = nxt.ret]
          /\ relations' = IF err = NoError THEN relations \cup {args}
                                           ELSE relations
          /\ trace' = Logged(c, <<"CreateRelation", args, err>>)
  /\ UNCHANGED << policyDown, codeMapping, friendCache, started, stuId, code, friendId,
                  bg, capacity >>

\* go func() { ... }()
Go(c) ==
  /\ pc[c] = "go"
  /\ pc' = [pc EXCEPT ![c] = AfterGo.pc]
  /\ bg' = [bg EXCEPT ![c] = AfterGo.bg]
  /\ UNCHANGED << policyDown, codeMapping, friendCache, relations, started, stuId, code,
                  friendId, ret, trace, capacity >>

\* return nil
Return(c) ==
  /\ pc[c] = "return"
  /\ pc' = [pc EXCEPT ![c] = "done"]
  /\ ret' = [ret EXCEPT ![c] = ReturnValue(bg[c])]
  /\ UNCHANGED << policyDown, codeMapping, friendCache, relations, started, stuId, code,
                  friendId, bg, trace, capacity >>

\* the goroutine: err = s.cache.User.SetUserFriendCache(s.ctx, friendId, stuId)
Background(c) ==
  /\ bg[c] = "spawned"
  /\ LET args == SetFriendArgs(stuId[c], friendId[c]) IN
     \E err \in {NoError, SetCacheError} :
       /\ bg' = [bg EXCEPT ![c] = AfterSetFriend(err)]
       /\ friendCache' = IF err = NoError THEN friendCache \cup {args}
                                          ELSE friendCache
       /\ trace' = Logged(c, <<"SetUserFriendCache", args, err>>)
  /\ UNCHANGED << policyDown, codeMapping, relations, started, pc, stuId, code, friendId,
                  ret, capacity >>

Next ==
  \/ \E c \in Calls, s \in Users, k \in Codes : Call(c, s, k)
  \/ \E c \in Calls : GetMapping(c)
  \/ \E c \in Calls : FindRelation(c)
  \/ \E c \in Calls : CreateRelation(c)
  \/ \E c \in Calls : Go(c)
  \/ \E c \in Calls : Return(c)
  \/ \E c \in Calls : Background(c)

Spec == Init /\ [][Next]_vars

\* ------------------------------------------------------------------ claims
Started(c) == pc[c] # "idle"
Done(c) == pc[c] = "done"
Succeeded(c) == Done(c) /\ ret[c] = Nil
Resolved(c) == friendId[c] # NoUser
Creates(c) == CallsOf(c, "CreateRelation")
Finds(c) == CallsOf(c, "GetRelationByUserId")
SetFriends(c) == CallsOf(c, "SetUserFriendCache")
\* the duplicate check of the call answered "exists" without an error
FoundExisting(c) ==
  \E i \in 1..Len(Finds(c)) :
    /\ Finds(c)[i][3] = TRUE
    /\ Finds(c)[i][4] = NoError

\* C1: a call that returned success invoked CreateRelation exactly once, with
\* (requester, resolved friend) in that order and without an error, the friend
\* being the user the code maps to; and the return statement never waits for
\* the goroutine: it can be taken whatever the goroutine has done so far.
C1_SuccessCreatesOnce ==
  \A c \in Calls :
    /\ Succeeded(c) =>
         /\ Creates(c) = << <<"CreateRelation", <<stuId[c], friendId[c]>>, NoError>> >>
         /\ friendId[c] = codeMapping["code_mapping:" \o code[c]]
         /\ friendId[c] # stuId[c]
    /\ pc[c] = "return" => ENABLED Return(c)

\* C1 witness: a call has returned success, neither party being confined,
\* while its goroutine has not run yet.
C1_Witness ==
  \E c \in Calls :
    /\ Succeeded(c)
    /\ bg[c] = "spawned"
    /\ ~capacity[c].user /\ ~capacity[c].target
    /\ Len(Creates(c)) = 1

\* C2: a call whose key "code_mapping:<code>" is not in the code cache has
\* returned InvalidInvitationCode and has called neither the store's
\* CreateRelation nor anything else that writes.
C2_AbsentCodeRejected ==
  \A c \in Calls :
    (Started(c) /\ ("code_mapping:" \o code[c]) \notin DOMAIN codeMapping) =>
      /\ Done(c)
      /\ ret[c].kind = InvalidInvitationCode
      /\ Creates(c) = <<>>
      /\ SetFriends(c) = <<>>
      /\ bg[c] = "none"
      /\ <<stuId[c], friendId[c]>> \notin relations

\* C2 witness: a call with the never-issued code has ended while the store
\* already holds a relation.
C2_Witness ==
  \E c \in Calls :
    /\ Done(c)
    /\ code[c] = "MNOPQR"
    /\ ret[c].kind = InvalidInvitationCode
    /\ relations # {}

\* C3: a call whose code resolved to the requester itself has returned
\* SelfBindingNotAllowed and has called neither GetRelationByUserId nor
\* CreateRelation.
C3_SelfBindingRejected ==
  \A c \in Calls :
    (Started(c) /\ Resolved(c) /\ friendId[c] = stuId[c]) =>
      /\ Done(c)
      /\ ret[c].kind = SelfBindingNotAllowed
      /\ Finds(c) = <<>>
      /\ Creates(c) = <<>>
      /\ bg[c] = "none"

\* C3 witness: a self-binding call was rejected although the store holds
\* relations and the requester's friend list is full.
C3_Witness ==
  \E c \in Calls :
    /\ Done(c)
    /\ friendId[c] = stuId[c]
    /\ ret[c].kind = SelfBindingNotAllowed
    /\ relations # {}
    /\ IsConfined(stuId[c])

\* C4: a call whose duplicate check found the relation (requester, friend)
\* in the store has returned RelationAlreadyExists, has not called
\* CreateRelation and has not started the goroutine.
C4_ExistingRelationRejected ==
  \A c \in Calls :
    FoundExisting(c) =>
      /\ Done(c)
      /\ ret[c].kind = RelationAlreadyExists
      /\ Creates(c) = <<>>
      /\ bg[c] = "none"
      /\ SetFriends(c) = <<>>

\* C4 witness: a call found the relation of an earlier successful call.
C4_Witness ==
  \E c \in Calls :
    /\ FoundExisting(c)
    /\ friendId[c] # stuId[c]
    /\ <<stuId[c], friendId[c]>> \in relations
    /\ ret[c].kind = RelationAlreadyExists

Removes(c) == CallsOf(c, "RemoveCodeStuIdMappingCache")
\* the call passed the code, self-binding and duplicate checks
PassedChecks(c) ==
  \E i \in 1..Len(Finds(c)) :
    /\ Finds(c)[i][3] = FALSE
    /\ Finds(c)[i][4] = NoError
\* CreateRelation of the call returned no error: the call wrote the store
Persisted(c) ==
  \E i \in 1..Len(Creates(c)) : Creates(c)[i][3] = NoError
\* CreateRelation of the call returned an error
CreateFailed(c) ==
  \E i \in 1..Len(Creates(c)) : Creates(c)[i][3] # NoError

\* C5: a call that passed the code, self-binding and duplicate checks while
\* the requester or the friend was confined returns FriendListFull naming the
\* confined party (the requester first) and never calls CreateRelation.
C5_FullListRejected ==
  \A c \in Calls :
    (PassedChecks(c) /\ (capacity[c].user \/ capacity[c].target)) =>
      /\ Creates(c) = <<>>
      /\ Done(c) =>
           /\ ret[c].kind = FriendListFull
           /\ ret[c].who = IF capacity[c].user THEN stuId[c] ELSE friendId[c]

\* C6: once the goroutine of a successful call has ended without a failed
\* cache operation, it has called RemoveCodeStuIdMappingCache exactly once
\* with the key of the code, and the key is no longer in the code cache.
C6_MappingRemoved ==
  \A c \in Calls :
    (Succeeded(c) /\ bg[c] = "ok") =>
      /\ Removes(c) = << <<"RemoveCodeStuIdMappingCache",
                           "code_mapping:" \o code[c], NoError>> >>
      /\ ("code_mapping:" \o code[c]) \notin DOMAIN codeMapping

\* C7: a failed goroutine leaves the call's result alone: the call that
\* started it has passed CreateRelation, returns (or has returned) success,
\* its relation is in the store, and SetUserFriendCache is called at most once
\* per call, failed or not.
C7_BackgroundFailureInvisible ==
  \A c \in Calls :
    /\ Len(SetFriends(c)) <= 1
    /\ bg[c] = "failed" =>
         /\ pc[c] \in {"return", "done"}
         /\ Done(c) => ret[c] = Nil
         /\ Persisted(c)
         /\ <<stuId[c], friendId[c]>> \in relations
         /\ SetFriends(c) = << <<"SetUserFriendCache",
                                  <<friendId[c], stuId[c]>>, SetCacheError>> >>

\* C7 witness: a call has returned success and its goroutine has failed.
C7_Witness ==
  \E c \in Calls :
    /\ Succeeded(c)
    /\ bg[c] = "failed"
    /\ <<stuId[c], friendId[c]>> \in relations

\* C8: a finished call has one outcome, success or one of the eight error
\* kinds; with an error it has written neither the store nor the caches; with
\* success its relation is persisted, was not a duplicate, and neither party
\* was confined when the checks were passed.
C8_OneOutcomeNoPartialState ==
  \A c \in Calls :
    Done(c) =>
      /\ ret[c].kind \in ErrorKinds \cup {Success}
      /\ ret[c].kind # Success =>
           /\ ~Persisted(c)
           /\ SetFriends(c) = <<>>
           /\ Removes(c) = <<>>
           /\ bg[c] = "none"
      /\ ret[c].kind = Success =>
           /\ Persisted(c)
           /\ <<stuId[c], friendId[c]>> \in relations
           /\ PassedChecks(c)
           /\ ~capacity[c].user /\ ~capacity[c].target /\ ~capacity[c].err

\* C9: a call that passed the code, self-binding and duplicate checks while
\* the friend-count check of the requester answers with an error returns
\* ConfinementCheckFailed and never calls CreateRelation.
C9_ConfinementErrorSurfaced ==
  \A c \in Calls :
    (PassedChecks(c) /\ capacity[c].err) =>
      /\ Creates(c) = <<>>
      /\ Done(c) => ret[c].kind = ConfinementCheckFailed

\* C10: a call whose CreateRelation returned an error has returned
\* RelationCreateFailed wrapping that error, has not started the goroutine,
\* and has called neither SetUserFriendCache nor RemoveCodeStuIdMappingCache.
C10_CreateErrorStopsCall ==
  \A c \in Calls :
    CreateFailed(c) =>
      /\ Done(c)
      /\ Len(Creates(c)) = 1
      /\ ret[c] = [kind |-> RelationCreateFailed, who |-> NoUser,
                   cause |-> Creates(c)[1][3]]
      /\ bg[c] = "none"
      /\ SetFriends(c) = <<>>
      /\ Removes(c) = <<>>

\* C10 witness: CreateRelation failed with a store error and the call ended.
C10_Witness ==
  \E c \in Calls :
    /\ CreateFailed(c)
    /\ Done(c)
    /\ ret[c].cause = DbError
    /\ <<stuId[c], friendId[c]>> \notin relations

Gets(c) == CallsOf(c, "GetCodeStuIdMappingCache")
\* GetCodeStuIdMappingCache of the call returned an error
GetFailed(c) == Gets(c) # <<>> /\ Gets(c)[1][3] # NoError
\* GetRelationByUserId of the call returned an error
FindFailed(c) == Finds(c) # <<>> /\ Finds(c)[1][4] # NoError

\* C11: a call whose GetCodeStuIdMappingCache returned an error has returned
\* CacheLookupFailed wrapping it without any store call; a call whose
\* GetRelationByUserId returned an error has returned RelationLookupFailed
\* wrapping it, whatever the exists flag was; neither calls CreateRelation.
C11_LookupErrorsSurfaced ==
  \A c \in Calls :
    /\ GetFailed(c) =>
         /\ Done(c)
         /\ ret[c] = [kind |-> CacheLookupFailed, who |-> NoUser,
                      cause |-> Gets(c)[1][3]]
         /\ Finds(c) = <<>>
         /\ Creates(c) = <<>>
         /\ bg[c] = "none"
    /\ FindFailed(c) =>
         /\ Done(c)
         /\ ret[c] = [kind |-> RelationLookupFailed, who |-> NoUser,
                      cause |-> Finds(c)[1][4]]
         /\ Creates(c) = <<>>
         /\ bg[c] = "none"

\* C11 witness: GetRelationByUserId returned an error together with the
\* exists flag set, and the call ended with RelationLookupFailed.
C11_Witness ==
  \E c \in Calls :
    /\ FindFailed(c)
    /\ Finds(c)[1][3] = TRUE
    /\ Done(c)
    /\ ret[c].kind = RelationLookupFailed

\* the outcome the ordered steps give: the error of the first failing step
ExpectedOutcome(c) ==
  IF ("code_mapping:" \o code[c]) \notin DOMAIN codeMapping
    THEN [kind |-> InvalidInvitationCode, who |-> NoUser]
  ELSE IF GetFailed(c) THEN [kind |-> CacheLookupFailed, who |-> NoUser]
  ELSE IF friendId[c] = stuId[c] THEN [kind |-> SelfBindingNotAllowed, who |-> NoUser]
  ELSE IF FindFailed(c) THEN [kind |-> RelationLookupFailed, who |-> NoUser]
  ELSE IF FoundExisting(c) THEN [kind |-> RelationAlreadyExists, who |-> NoUser]
  ELSE IF capacity[c].err THEN [kind |-> ConfinementCheckFailed, who |-> stuId[c]]
  ELSE IF capacity[c].user THEN [kind |-> FriendListFull, who |-> stuId[c]]
  ELSE IF capacity[c].target THEN [kind |-> FriendListFull, who |-> friendId[c]]
  ELSE IF CreateFailed(c) THEN [kind |-> RelationCreateFailed, who |-> NoUser]
  ELSE [kind |-> Success, who |-> NoUser]

\* C12: a finished call returns the error of the earliest failing step in the
\* order code-exists, resolve, self-binding, duplicate check, requester
\* capacity, friend capacity, CreateRelation, and has called no collaborator
\* of a later step.
C12_FirstFailureWins ==
  \A c \in Calls :
    Done(c) =>
      /\ ret[c].kind = ExpectedOutcome(c).kind
      /\ ret[c].who = ExpectedOutcome(c).who
      /\ ret[c].kind = InvalidInvitationCode => Gets(c) = <<>>
      /\ ret[c].kind \in {InvalidInvitationCode, CacheLookupFailed,
                          SelfBindingNotAllowed} => Finds(c) = <<>>
      /\ ret[c].kind \notin {RelationCreateFailed, Success} => Creates(c) = <<>>

\* two calls for the same ordered pair (requester, resolved friend)
SamePair(c, d) ==
  /\ c # d
  /\ Resolved(c) /\ Resolved(d)
  /\ stuId[c] = stuId[d]
  /\ friendId[c] = friendId[d]
\* two calls by the same requester with the same code
SameRequest(c, d) ==
  /\ c # d
  /\ Started(c) /\ Started(d)
  /\ stuId[c] = stuId[d]
  /\ code[c] = code[d]

\* C13 as stated: CreateRelation is invoked at most once for any ordered
\* pair (requester, friend), over all calls.
C13_CreateInvokedOncePerPair ==
  \A c, d \in Calls :
    SamePair(c, d) => ~(Creates(c) # <<>> /\ Creates(d) # <<>>)

\* C13 amended: a call invokes CreateRelation at most once, for its own pair
\* (requester, friend) of two distinct users, and only after its duplicate
\* check found no relation; CreateRelation returns success at most once for
\* any ordered pair.
C13_CreatedOncePerPair ==
  /\ \A c \in Calls :
       /\ Len(Creates(c)) <= 1
       /\ Creates(c) # <<>> =>
            /\ PassedChecks(c)
            /\ Creates(c)[1][2] = <<stuId[c], friendId[c]>>
            /\ stuId[c] # friendId[c]
  /\ \A c, d \in Calls :
       SamePair(c, d) => ~(Persisted(c) /\ Persisted(d))

\* C13 witness: two calls for the same pair both passed the duplicate check
\* and both invoked CreateRelation; the second was refused by the store.
C13_Witness ==
  \E c, d \in Calls :
    /\ SamePair(c, d)
    /\ Persisted(c)
    /\ Creates(d) # <<>>
    /\ Creates(d)[1][3] = DuplicateEntry

\* C14 as stated: of two calls by the same requester with the same code at
\* most one returns success, the other returns RelationAlreadyExists or
\* RelationCreateFailed, and the store holds the pair.
C14_OtherCallRejected ==
  \A c, d \in Calls :
    (SameRequest(c, d) /\ Succeeded(c)) =>
      /\ ~Succeeded(d)
      /\ Done(d) => ret[d].kind \in {RelationAlreadyExists, RelationCreateFailed}
      /\ <<stuId[c], friendId[c]>> \in relations

\* C14 amended: of two calls by the same requester with the same code at
\* most one returns success; the other returns RelationAlreadyExists or
\* RelationCreateFailed, or the error of a lookup of its own that failed
\* (CacheLookupFailed, RelationLookupFailed); the store holds the pair.
C14_AtMostOneSuccess ==
  \A c, d \in Calls :
    (SameRequest(c, d) /\ Succeeded(c)) =>
      /\ ~Succeeded(d)
      /\ Done(d) => ret[d].kind \in {RelationAlreadyExists, RelationCreateFailed,
                                      CacheLookupFailed, RelationLookupFailed}
      /\ (Done(d) /\ ~GetFailed(d) /\ ~FindFailed(d)) =>
           ret[d].kind \in {RelationAlreadyExists, RelationCreateFailed}
      /\ <<stuId[c], friendId[c]>> \in relations

\* C14 witness: two calls by the same requester with the same code raced past
\* the duplicate check; one returned success and the other
\* RelationCreateFailed from the store's unique constraint.
C14_Witness ==
  \E c, d \in Calls :
    /\ SameRequest(c, d)
    /\ Succeeded(c)
    /\ Done(d)
    /\ PassedChecks(d)
    /\ ret[d] = [kind |-> RelationCreateFailed, who |-> NoUser,
                 cause |-> DuplicateEntry]

\* C15: an invitation code is redeemable once: no two calls with the same
\* code both return success.
C15_CodeRedeemedOnce ==
  \A c, d \in Calls :
    (c # d /\ Started(c) /\ Started(d) /\ code[c] = code[d]) =>
      ~(Succeeded(c) /\ Succeeded(d))

\* C16: while the friend-count check answers without an error, no user's
\* friend count exceeds the maximum, and no call succeeds whose requester or
\* friend was already at the maximum.
C16_CapacityRespected ==
  ~policyDown =>
    /\ \A u \in Users : FriendCount(u) <= MaxFriendNums
    /\ \A c \in Calls :
         Succeeded(c) => ~capacity[c].user /\ ~capacity[c].target

\* C17: SetUserFriendCache is called with owner = resolved friend and friend
\* = requester, only by a call whose CreateRelation for (requester, friend)
\* has already returned success, and never by a call that returns an error;
\* a successful write leaves that entry in the friend cache.
C17_FriendCacheAfterCreate ==
  \A c \in Calls :
    SetFriends(c) # <<>> =>
      /\ SetFriends(c)[1][2] = <<friendId[c], stuId[c]>>
      /\ Persisted(c)
      /\ Creates(c) = << <<"CreateRelation", <<stuId[c], friendId[c]>>, NoError>> >>
      /\ pc[c] \in {"return", "done"}
      /\ Done(c) => ret[c] = Nil
      /\ SetFriends(c)[1][3] = NoError => <<friendId[c], stuId[c]>> \in friendCache

\* C17 witness: the goroutine of a successful call has recorded the requester
\* in the friend list of the inviter.
C17_Witness ==
  \E c \in Calls :
    /\ Succeeded(c)
    /\ bg[c] = "ok"
    /\ friendId[c] = codeMapping["code_mapping:" \o code[c]]
    /\ <<friendId[c], stuId[c]>> \in friendCache
    /\ <<stuId[c], friendId[c]>> \notin friendCache

\* C18: the duplicate check looks at the forward edge only: a call is
\* refused with RelationAlreadyExists only when (requester, friend) is in the
\* store, and the query it makes is for (requester, friend); a reverse edge
\* alone does not stop the call from creating the forward edge.
C18_ForwardEdgeOnly ==
  \A c \in Calls :
    /\ Finds(c) # <<>> => Finds(c)[1][2] = <<stuId[c], friendId[c]>>
    /\ FoundExisting(c) => <<stuId[c], friendId[c]>> \in relations
    /\ (Done(c) /\ ret[c].kind = RelationAlreadyExists) =>
         <<stuId[c], friendId[c]>> \in relations

\* C18 witness: two users have each redeemed the other's code; the second
\* call passed the duplicate check and succeeded, neither party being
\* confined, and the store holds both directions.
C18_Witness ==
  \E c, d \in Calls :
    /\ c # d
    /\ Succeeded(c) /\ Succeeded(d)
    /\ stuId[c] = friendId[d]
    /\ friendId[c] = stuId[d]
    /\ <<stuId[c], friendId[c]>> \in relations
    /\ <<friendId[c], stuId[c]>> \in relations
    /\ capacity[c] = NoCapacity /\ capacity[d] = NoCapacity

\* C19: neither the store nor the friend cache ever holds a pair (u, u).
C19_NoSelfRelation ==
  \A p \in relations \cup friendCache : p[1] # p[2]

\* C19 witness: a user has redeemed their own code and a bind of another
\* call has reached the store and the friend cache.
C19_Witness ==
  \E c \in Calls :
    /\ Done(c)
    /\ Resolved(c)
    /\ friendId[c] = stuId[c]
    /\ relations # {}
    /\ friendCache # {}

\* C20: every entry (owner f, friend r) of the friend cache has its relation
\* (r, f) in the store.
C20_CacheBehindStore ==
  \A p \in friendCache : <<p[2], p[1]>> \in relations

\* C20 witness: the cache holds an entry, and a persisted relation has no
\* entry because its goroutine failed.
C20_Witness ==
  \E c, d \in Calls :
    /\ bg[c] = "ok"
    /\ <<friendId[c], stuId[c]>> \in friendCache
    /\ bg[d] = "failed"
    /\ <<stuId[d], friendId[d]>> \in relations
    /\ <<friendId[d], stuId[d]>> \notin friendCache

====
